---- MODULE Spec2Model ----
(***************************************************************************)
(* wowid3-server/gen_secret.py: generate a tracker secret, print it, and   *)
(* with --save also store it in .tracker_secret.                           *)
(*                                                                         *)
(* One run of the script is a walk of pc through its statements; the file  *)
(* .tracker_secret outlives a run, everything else is per run.  Streams    *)
(* and the file are sequences of one-character strings.                    *)
(***************************************************************************)
EXTENDS Integers, Sequences, FiniteSets

\* ---------------------------------------------------------------- bounds
MaxRuns == 2          \* consecutive runs in the same working directory
MaxArgs == 2          \* command-line arguments after the script name
NumSamples == 3       \* distinct outputs of the random source

\* ------------------------------------------------------ program constants
NBytes == 32          \* secrets.token_hex(32)

SaveFlag == "--save"
Args == {SaveFlag, "foo"}

HexDigits == <<"0", "1", "2", "3", "4", "5", "6", "7",
               "8", "9", "a", "b", "c", "d", "e", "f">>

ConfirmMsg == <<"\n", "S", "e", "c", "r", "e", "t", " ", "s", "a", "v", "e",
                "d", " ", "t", "o", " ", ".", "t", "r", "a", "c", "k", "e",
                "r", "_", "s", "e", "c", "r", "e", "t">>

\* ------------------------------------------------------------ environment
\* sys.argv: the script name followed by at most MaxArgs arguments.
RECURSIVE ArgTails(_)
ArgTails(n) ==
    IF n = 0 THEN {<<>>}
    ELSE ArgTails(n - 1) \cup
         {Append(t, a) : t \in {u \in ArgTails(n - 1) : Len(u) = n - 1}, a \in Args}

ArgLists == {<<"gen_secret.py">> \o t : t \in ArgTails(MaxArgs)}

\* What os.urandom(NBytes) can return: NumSamples different byte strings.
Sample(k) == [i \in 1..NBytes |-> ((i - 1) * (2 * k + 7) + k * 255) % 256]

NoEntropy == [ok |-> FALSE, bytes |-> <<>>]
Entropy == {[ok |-> TRUE, bytes |-> Sample(k)] : k \in 0..(NumSamples - 1)}
               \cup {NoEntropy}

\* .tracker_secret before the first run: missing, or left over from
\* something else (longer than a secret, not hexadecimal).
Absent == [exists |-> FALSE, data |-> <<>>]
StaleContent == [i \in 1..(2 * NBytes + 3) |-> "#"]
InitFiles == {Absent, [exists |-> TRUE, data |-> StaleContent]}

\* ------------------------------------------------------- pure operations
\* binascii.hexlify(...).decode(): two lowercase digits per byte.
Hexlify(bytes) ==
    [j \in 1..(2 * Len(bytes)) |->
        IF j % 2 = 1 THEN HexDigits[(bytes[(j + 1) \div 2] \div 16) + 1]
                     ELSE HexDigits[(bytes[j \div 2] % 16) + 1]]

token_hex(src) == Hexlify(src.bytes)

\* Variant of print_line: print(s, end='', file=stream).
print_line_noeol(stream, s) == stream \o s

\* print(s, file=stream): the text, then a newline.
print_line(stream, s) == stream \o s \o <<"\n">>

\* The traceback the interpreter writes for an exception nobody catches.
Traceback(exc) == <<"Traceback (most recent call last): " \o exc, "\n">>

\* Variant of SaveRequested: '--save' in sys.argv[1:].
SaveRequested_anywhere(av) == \E i \in 2..Len(av) : av[i] = SaveFlag

\* len(sys.argv) > 1 and sys.argv[1] == '--save'
SaveRequested(av) == Len(av) > 1 /\ av[2] = SaveFlag

\* Variant of Truncated: open(..., 'a'), which keeps what is there.
Truncated_append(f) == [exists |-> TRUE, data |-> f.data]

\* open(..., 'w'): create the file or cut it to length zero.
Truncated(f) == [exists |-> TRUE, data |-> <<>>]

\* Variant of Flushed: the file object is dropped without flush or close.
Flushed_lost(f, buf) == [exists |-> TRUE, data |-> f.data]

\* Flushing the buffer of the open file appends it to what is on disk.
Flushed(f, buf) == [exists |-> TRUE, data |-> f.data \o buf]

Prefix(s, k) == SubSeq(s, 1, k)

\* Where a failing flush can stop: before the first character, after it,
\* half way, and one character short of the end.
FlushCuts(buf) ==
    {k \in {0, 1, Len(buf) \div 2, Len(buf) - 1} : 0 <= k /\ k < Len(buf)}

VARIABLES
    pc,          \* next statement of the current run
    argv,        \* sys.argv of the current run
    urandom,     \* what the random source yields to this run
    secret,      \* the module-level variable `secret`
    stdout,      \* characters written to sys.stdout in this run
    stderr,      \* characters written to sys.stderr in this run
    file,        \* .tracker_secret on disk
    fbuf,        \* write buffer of the open file object f
    exitStatus,  \* <<>> while running, <<code>> once the process has ended
    outcome,     \* how the run ended
    runs,        \* runs started so far
    preFile,     \* history: .tracker_secret when this run started
    opens,       \* history: open() calls in this run
    writes,      \* history: f.write() calls in this run
    lastSaved,   \* history: <<secret>> of the latest --save run that exited 0
    clobbered    \* history: the file was opened since then by a run that
                 \*          did not reach its end

vars == <<pc, argv, urandom, secret, stdout, stderr, file, fbuf, exitStatus,
          outcome, runs, preFile, opens, writes, lastSaved, clobbered>>

Init ==
    /\ pc = "generate"
    /\ argv \in ArgLists
    /\ urandom \in Entropy
    /\ secret = <<>>
    /\ stdout = <<>>
    /\ stderr = <<>>
    /\ file \in InitFiles
    /\ fbuf = <<>>
    /\ exitStatus = <<>>
    /\ outcome = "running"
    /\ runs = 1
    /\ preFile = file
    /\ opens = 0
    /\ writes = 0
    /\ lastSaved = <<>>
    /\ clobbered = FALSE

\* The process ends because of an uncaught exception.
Die(exc, code, how) ==
    /\ pc' = "done"
    /\ stderr' = stderr \o Traceback(exc)
    /\ exitStatus' = <<code>>
    /\ outcome' = how

\* Variant of Generate: reuse the secret already in .tracker_secret.
Generate_cached ==
    /\ pc = "generate"
    /\ urandom.ok
    /\ secret' = IF file.exists /\ Len(file.data) = 2 * NBytes
                   THEN file.data
                   ELSE token_hex(urandom)
    /\ pc' = "print"
    /\ UNCHANGED <<argv, urandom, stdout, stderr, file, fbuf, exitStatus,
                   outcome, runs, preFile, opens, writes, lastSaved, clobbered>>

\* line 6: secret = secrets.token_hex(32)
Generate ==
    /\ pc = "generate"
    /\ urandom.ok
    /\ secret' = token_hex(urandom)
    /\ pc' = "print"
    /\ UNCHANGED <<argv, urandom, stdout, stderr, file, fbuf, exitStatus,
                   outcome, runs, preFile, opens, writes, lastSaved, clobbered>>

\* Variant of GenerateFail: fall back to a fixed, non-random value.
GenerateFail_fallback ==
    /\ pc = "generate"
    /\ ~urandom.ok
    /\ secret' = Hexlify(Sample(0))
    /\ pc' = "print"
    /\ UNCHANGED <<argv, urandom, stdout, stderr, file, fbuf, exitStatus,
                   outcome, runs, preFile, opens, writes, lastSaved, clobbered>>

\* line 6, the random source raises
GenerateFail ==
    /\ pc = "generate"
    /\ ~urandom.ok
    /\ Die("NotImplementedError", 1, "entropy_error")
    /\ UNCHANGED <<argv, urandom, secret, stdout, file, fbuf, runs, preFile,
                   opens, writes, lastSaved, clobbered>>

\* line 7: print(secret)
PrintSecret ==
    /\ pc = "print"
    /\ stdout' = print_line(stdout, secret)
    /\ pc' = "check"
    /\ UNCHANGED <<argv, urandom, secret, stderr, file, fbuf, exitStatus,
                   outcome, runs, preFile, opens, writes, lastSaved, clobbered>>

\* Variant of CheckSave: an unrecognised argument is reported on stderr.
CheckSave_noisy ==
    /\ pc = "check"
    /\ IF SaveRequested(argv)
         THEN /\ pc' = "open"
              /\ UNCHANGED <<exitStatus, outcome, stderr>>
         ELSE /\ pc' = "done"
              /\ exitStatus' = <<0>>
              /\ outcome' = "ok"
              /\ stderr' = IF Len(argv) > 1
                              THEN print_line(stderr, <<"?">>)
                              ELSE stderr
    /\ UNCHANGED <<argv, urandom, secret, stdout, file, fbuf, runs,
                   preFile, opens, writes, lastSaved, clobbered>>

\* line 10: the if; without --save the script falls off its end
CheckSave ==
    /\ pc = "check"
    /\ IF SaveRequested(argv)
         THEN /\ pc' = "open"
              /\ UNCHANGED <<exitStatus, outcome>>
         ELSE /\ pc' = "done"
              /\ exitStatus' = <<0>>
              /\ outcome' = "ok"
    /\ UNCHANGED <<argv, urandom, secret, stdout, stderr, file, fbuf, runs,
                   preFile, opens, writes, lastSaved, clobbered>>

\* line 11: open('.tracker_secret', 'w')
OpenFile ==
    /\ pc = "open"
    /\ file' = Truncated(file)
    /\ fbuf' = <<>>
    /\ opens' = opens + 1
    /\ clobbered' = TRUE
    /\ pc' = "write"
    /\ UNCHANGED <<argv, urandom, secret, stdout, stderr, exitStatus, outcome,
                   runs, preFile, writes, lastSaved>>

\* line 11, open raises (permission denied, read-only directory, ...)
OpenFail ==
    /\ pc = "open"
    /\ opens' = opens + 1
    /\ Die("OSError", 1, "io_error")
    /\ UNCHANGED <<argv, urandom, secret, stdout, file, fbuf, runs, preFile,
                   writes, lastSaved, clobbered>>

\* Variant of WriteFile: print(secret, file=f), which adds a newline.
WriteFile_println ==
    /\ pc = "write"
    /\ fbuf' = print_line(fbuf, secret)
    /\ writes' = writes + 1
    /\ pc' = "close"
    /\ UNCHANGED <<argv, urandom, secret, stdout, stderr, file, exitStatus,
                   outcome, runs, preFile, opens, lastSaved, clobbered>>

\* line 12: f.write(secret), into the buffer of f
WriteFile ==
    /\ pc = "write"
    /\ fbuf' = fbuf \o secret
    /\ writes' = writes + 1
    /\ pc' = "close"
    /\ UNCHANGED <<argv, urandom, secret, stdout, stderr, file, exitStatus,
                   outcome, runs, preFile, opens, lastSaved, clobbered>>

\* lines 11-12, leaving the with block: f is flushed and closed
CloseFile ==
    /\ pc = "close"
    /\ file' = Flushed(file, fbuf)
    /\ fbuf' = <<>>
    /\ pc' = "confirm"
    /\ UNCHANGED <<argv, urandom, secret, stdout, stderr, exitStatus, outcome,
                   runs, preFile, opens, writes, lastSaved, clobbered>>

\* Variant of CloseFail: the confirmation is printed inside the with
\* block, before the flush that fails.
CloseFail_confirmed ==
    /\ pc = "close"
    /\ \E k \in FlushCuts(fbuf) :
           file' = Flushed(file, Prefix(fbuf, k))
    /\ fbuf' = <<>>
    /\ pc' = "done"
    /\ stderr' = print_line(stderr, ConfirmMsg) \o Traceback("OSError")
    /\ exitStatus' = <<1>>
    /\ outcome' = "io_error"
    /\ UNCHANGED <<argv, urandom, secret, stdout, runs, preFile, opens,
                   writes, lastSaved, clobbered>>

\* lines 11-12, the flush fails (disk full, ...) after k characters
CloseFail ==
    /\ pc = "close"
    /\ \E k \in FlushCuts(fbuf) :
           file' = Flushed(file, Prefix(fbuf, k))
    /\ fbuf' = <<>>
    /\ Die("OSError", 1, "io_error")
    /\ UNCHANGED <<argv, urandom, secret, stdout, runs, preFile, opens,
                   writes, lastSaved, clobbered>>

\* Variant of Confirm: the file=sys.stderr argument is missing.
Confirm_stdout ==
    /\ pc = "confirm"
    /\ stdout' = print_line(stdout, ConfirmMsg)
    /\ pc' = "done"
    /\ exitStatus' = <<0>>
    /\ outcome' = "ok"
    /\ lastSaved' = <<secret>>
    /\ clobbered' = FALSE
    /\ UNCHANGED <<argv, urandom, secret, stderr, file, fbuf, runs, preFile,
                   opens, writes>>

\* line 13: print("\nSecret saved to .tracker_secret", file=sys.stderr),
\* then the end of the script
Confirm ==
    /\ pc = "confirm"
    /\ stderr' = print_line(stderr, ConfirmMsg)
    /\ pc' = "done"
    /\ exitStatus' = <<0>>
    /\ outcome' = "ok"
    /\ lastSaved' = <<secret>>
    /\ clobbered' = FALSE
    /\ UNCHANGED <<argv, urandom, secret, stdout, file, fbuf, runs, preFile,
                   opens, writes>>

\* KeyboardInterrupt between two statements; inside the with block the
\* context manager still closes f, which flushes its buffer.
Interrupt ==
    /\ pc # "done"
    /\ IF pc \in {"write", "close"}
         THEN /\ file' = Flushed(file, fbuf)
              /\ fbuf' = <<>>
         ELSE UNCHANGED <<file, fbuf>>
    /\ Die("KeyboardInterrupt", 130, "interrupted")
    /\ UNCHANGED <<argv, urandom, secret, stdout, runs, preFile, opens,
                   writes, lastSaved, clobbered>>

\* The script is started again in the same directory.
NewRun ==
    /\ pc = "done"
    /\ runs < MaxRuns
    /\ runs' = runs + 1
    /\ pc' = "generate"
    /\ argv' \in ArgLists
    /\ urandom' \in Entropy
    /\ secret' = <<>>
    /\ stdout' = <<>>
    /\ stderr' = <<>>
    /\ fbuf' = <<>>
    /\ exitStatus' = <<>>
    /\ outcome' = "running"
    /\ preFile' = file
    /\ opens' = 0
    /\ writes' = 0
    /\ UNCHANGED <<file, lastSaved, clobbered>>

Next ==
    \/ Generate
    \/ GenerateFail
    \/ PrintSecret
    \/ CheckSave
    \/ OpenFile
    \/ OpenFail
    \/ WriteFile
    \/ CloseFile
    \/ CloseFail
    \/ Interrupt
    \/ Confirm
    \/ NewRun

Spec == Init /\ [][Next]_vars

TypeOK ==
    /\ pc \in {"generate", "print", "check", "open", "write", "close",
               "confirm", "done"}
    /\ argv \in ArgLists
    /\ urandom \in Entropy
    /\ outcome \in {"running", "ok", "entropy_error", "io_error", "interrupted"}
    /\ runs \in 1..MaxRuns
    /\ Len(exitStatus) <= 1
    /\ (pc = "done") <=> (exitStatus # <<>>)

\* ------------------------------------------------- vocabulary of the claims
HexChars == {HexDigits[i] : i \in 1..Len(HexDigits)}

\* ^[0-9a-f]{64}$
IsHex64(s) == Len(s) = 64 /\ \A i \in 1..Len(s) : s[i] \in HexChars

\* the one line a run owes to standard output
SecretLine == secret \o <<"\n">>

IsPrefix(p, s) == Len(p) <= Len(s) /\ p = SubSeq(s, 1, Len(p))

\* the confirmation text occurs somewhere in a stream
ContainsConfirm(s) ==
    \E i \in 1..Len(s) :
        /\ i + Len(ConfirmMsg) - 1 <= Len(s)
        /\ SubSeq(s, i, i + Len(ConfirmMsg) - 1) = ConfirmMsg

\* a first command-line argument exists and is exactly --save
FirstArgIsSave == Len(argv) >= 2 /\ argv[2] = "--save"

\* the run has executed line 7
Printed ==
    \/ pc \in {"check", "open", "write", "close", "confirm"}
    \/ outcome \in {"ok", "io_error"}

\* the run has executed line 10 and taken the --save branch
ReachedSave ==
    \/ pc \in {"write", "close", "confirm"}
    \/ FirstArgIsSave /\ outcome \in {"ok", "io_error"}

Saved(sec) == [exists |-> TRUE, data |-> sec]

\* ------------------------------------------------------------------- C1
\* C1 as stated: whenever a run has ended (other than by an interrupt),
\* standard output holds exactly one line, the 64 hex digits of the secret
\* and a newline.
C1_Original ==
    (pc = "done" /\ outcome # "interrupted")
        => (IsHex64(secret) /\ stdout = SecretLine)

\* C1 amended: standard output holds either nothing or exactly the secret
\* line (64 characters from 0-9a-f and one newline), and it holds the
\* secret line in every run that got past the print on line 7, whatever the
\* arguments and whether or not the file could be written; a run whose
\* random source fails ends with nothing on standard output.
C1_StdoutOneSecretLine ==
    /\ stdout = <<>> \/ (IsHex64(secret) /\ stdout = SecretLine)
    /\ Printed => (IsHex64(secret) /\ stdout = SecretLine)
    /\ (pc = "generate" \/ outcome = "entropy_error") => stdout = <<>>

C1_Witness ==
    /\ pc = "done"
    /\ outcome = "io_error"
    /\ IsHex64(secret)
    /\ stdout = SecretLine
    /\ \E i \in 1..Len(secret) : secret[i] \in {"a", "b", "c", "d", "e", "f"}

\* ------------------------------------------------------------------- C2
\* C2 as stated: a run that has ended (other than by an interrupt) has
\* opened .tracker_secret if and only if its first argument is --save, and
\* without that argument the file is as it was before the run.
C2_Original ==
    (pc = "done" /\ outcome # "interrupted")
        => /\ (opens > 0) <=> FirstArgIsSave
           /\ ~FirstArgIsSave => file = preFile

\* C2 amended: a run opens or writes .tracker_secret only if its first
\* argument exists and is exactly --save, and a --save run opens it once it
\* has got past the test on line 10 (a --save run whose random source fails,
\* or that is interrupted earlier, never opens it).  In every other run (no
\* argument, another first argument, --save only later in the list) the
\* file's existence and content stay what they were before the run.
C2_FileTouchedOnlyOnSave ==
    /\ (opens > 0 \/ writes > 0 \/ file # preFile) => FirstArgIsSave
    /\ ReachedSave => opens = 1
    /\ ~FirstArgIsSave => (file = preFile /\ opens = 0 /\ writes = 0)

C2_Witness ==
    /\ runs = 2
    /\ pc = "done"
    /\ outcome = "ok"
    /\ argv = <<"gen_secret.py", "foo", SaveFlag>>
    /\ lastSaved # <<>>
    /\ file = Saved(lastSaved[1])
    /\ file = preFile
    /\ secret # lastSaved[1]

\* ------------------------------------------------------------------- C3
\* C3: after a --save run that completes successfully, .tracker_secret
\* exists and its whole content is the 64 hex digits the run printed, with
\* no newline and nothing else, and the exit code is 0.
C3_SavedEqualsPrinted ==
    (pc = "done" /\ FirstArgIsSave /\ outcome = "ok")
        => /\ file.exists
           /\ IsHex64(file.data)
           /\ stdout = file.data \o <<"\n">>
           /\ file.data = secret
           /\ exitStatus = <<0>>

C3_Witness ==
    /\ pc = "done"
    /\ FirstArgIsSave
    /\ outcome = "ok"
    /\ preFile.exists
    /\ preFile.data = StaleContent
    /\ file = Saved(secret)
    /\ exitStatus = <<0>>

\* ------------------------------------------------------------------- C4
\* C4 as stated: after any sequence of runs that have ended (the last one
\* not by an interrupt), if some --save run succeeded then .tracker_secret
\* holds exactly the secret of the most recent successful --save run.
C4_Original ==
    (pc = "done" /\ outcome # "interrupted" /\ lastSaved # <<>>)
        => file = Saved(lastSaved[1])

\* C4 amended: after any sequence of runs that have ended, if at least one
\* run was a successful --save run and no --save run after the most recent
\* of them opened the file without succeeding, then .tracker_secret holds
\* exactly the secret of that run: a --save run replaces what the file held
\* (it never appends or keeps part of it), runs without --save in between
\* do not change it, and the first --save run creates a missing file.  A
\* later --save run that fails or is interrupted after opening the file
\* leaves it empty or holding a prefix of its own secret.
C4_FileHoldsLastSaved ==
    /\ (pc = "done" /\ lastSaved # <<>> /\ ~clobbered)
           => file = Saved(lastSaved[1])
    /\ (pc = "done" /\ clobbered)
           => (file.exists /\ IsPrefix(file.data, secret) /\ opens = 1)
              \/ file = preFile

C4_Witness ==
    /\ runs = 2
    /\ pc = "done"
    /\ FirstArgIsSave
    /\ outcome = "ok"
    /\ IsHex64(preFile.data)
    /\ preFile.data # secret
    /\ lastSaved = <<secret>>
    /\ file = Saved(secret)

\* ------------------------------------------------------------------- C5
\* C5: when creating or writing .tracker_secret fails in a --save run, the
\* run has ended with a non-zero exit status, the confirmation is not on
\* standard error (nor on standard output), the file was opened once and
\* written at most once (no retry), and standard output still holds
\* exactly the one secret line.
C5_WriteFailureIsFatal ==
    outcome = "io_error"
        => /\ pc = "done"
           /\ FirstArgIsSave
           /\ Len(exitStatus) = 1 /\ exitStatus[1] # 0
           /\ ~ContainsConfirm(stderr)
           /\ ~ContainsConfirm(stdout)
           /\ opens = 1 /\ writes <= 1
           /\ IsHex64(secret) /\ stdout = SecretLine

C5_Witness ==
    /\ outcome = "io_error"
    /\ writes = 1
    /\ file.exists
    /\ Len(file.data) = 1
    /\ stdout = SecretLine
    /\ exitStatus = <<1>>

\* ------------------------------------------------------------------- C6
\* C6 as stated: a run whose first argument is anything but --save, once
\* ended (other than by an interrupt), has written the one secret line to
\* standard output and nothing to standard error, has left .tracker_secret
\* alone and has exit code 0.
C6_Original ==
    (pc = "done" /\ outcome # "interrupted"
        /\ Len(argv) > 1 /\ ~FirstArgIsSave)
        => /\ stdout = SecretLine
           /\ stderr = <<>>
           /\ file = preFile
           /\ exitStatus = <<0>>

\* What a run without arguments leaves behind, given what the random source
\* yielded to it.
PlainOutcome(src) ==
    IF src.ok
      THEN [stdout |-> Hexlify(src.bytes) \o <<"\n">>, stderr |-> <<>>,
            exitStatus |-> <<0>>]
      ELSE [stdout |-> <<>>, stderr |-> Traceback("NotImplementedError"),
            exitStatus |-> <<1>>]

\* C6 amended: a run whose first argument is any string other than --save
\* behaves identically to a run with no arguments, for every observable:
\* when the random source delivers, it writes the one secret line to
\* standard output, nothing to standard error, does not touch
\* .tracker_secret and exits with code 0; when the random source fails,
\* both kinds of run write nothing to standard output, a traceback to
\* standard error, do not touch the file and exit with code 1.
C6_OtherArgLikeNoArg ==
    (pc = "done" /\ outcome # "interrupted" /\ ~FirstArgIsSave)
        => /\ stdout = PlainOutcome(urandom).stdout
           /\ stderr = PlainOutcome(urandom).stderr
           /\ exitStatus = PlainOutcome(urandom).exitStatus
           /\ file = preFile
           /\ opens = 0 /\ writes = 0

C6_Witness ==
    /\ pc = "done"
    /\ outcome = "ok"
    /\ argv = <<"gen_secret.py", "foo">>
    /\ preFile.exists
    /\ file = preFile
    /\ stdout = SecretLine
    /\ stderr = <<>>
    /\ exitStatus = <<0>>

\* ------------------------------------------------------------------- C7
\* C7: the secret of a run is determined by what the random source yielded
\* to that run and by nothing else: from line 6 on it is the hexadecimal
\* rendering of this run's 32 random bytes, whatever .tracker_secret holds,
\* whatever the arguments are and whatever earlier runs printed or saved;
\* before line 6 there is no secret.
C7_SecretFromEntropyOnly ==
    /\ (pc \notin {"generate", "done"} \/ outcome \in {"ok", "io_error"})
           => (urandom.ok /\ secret = Hexlify(urandom.bytes))
    /\ secret # <<>> => (urandom.ok /\ secret = Hexlify(urandom.bytes))
    /\ pc = "generate" => secret = <<>>

C7_Witness ==
    /\ runs = 2
    /\ pc = "print"
    /\ FirstArgIsSave
    /\ lastSaved # <<>>
    /\ file = Saved(lastSaved[1])
    /\ secret = Hexlify(urandom.bytes)
    /\ secret # file.data

\* ------------------------------------------------------------------- C8
\* C8: in a --save run the secret is on standard output before
\* .tracker_secret is opened; the file is completely written and closed
\* before the confirmation is emitted; the confirmation is a blank line and
\* the notice, on standard error and never on standard output.  Whenever
\* the confirmation has appeared the file holds the complete secret and
\* the run has opened and written the file exactly once.
C8_SaveStepsInOrder ==
    /\ (opens > 0 \/ pc \in {"open", "write", "close", "confirm"})
           => stdout = SecretLine
    /\ writes > 0 => opens = 1
    /\ pc = "confirm" => (file = Saved(secret) /\ fbuf = <<>>)
    /\ ContainsConfirm(stderr)
           => /\ file = Saved(secret)
              /\ fbuf = <<>>
              /\ opens = 1 /\ writes = 1
              /\ stderr = <<"\n">> \o SubSeq(ConfirmMsg, 2, Len(ConfirmMsg))
                              \o <<"\n">>
    /\ ~ContainsConfirm(stdout)
    /\ (pc = "done" /\ FirstArgIsSave /\ outcome = "ok")
           => ContainsConfirm(stderr)

C8_Witness ==
    /\ pc = "done"
    /\ FirstArgIsSave
    /\ ContainsConfirm(stderr)
    /\ stdout = SecretLine
    /\ file = Saved(secret)
    /\ writes = 1

C10_EntropyFailureIsFatal ==
    ~urandom.ok
        => /\ pc \in {"generate", "done"}
           /\ secret = <<>>
           /\ stdout = <<>>
           /\ file = preFile
           /\ opens = 0 /\ writes = 0
           /\ ~ContainsConfirm(stderr)
           /\ pc = "done" => (Len(exitStatus) = 1 /\ exitStatus[1] # 0)

C10_Witness ==
    /\ ~urandom.ok
    /\ pc = "done"
    /\ outcome = "entropy_error"
    /\ FirstArgIsSave
    /\ stdout = <<>>
    /\ exitStatus = <<1>>
====
